---- MODULE Spec2Model ----
(***************************************************************************)
(* Model of src/server.go (package ldapserver): the Server's registration  *)
(* of its Handler, the acceptor loop run by Serve/ServeTLS, and Stop.      *)
(*                                                                         *)
(* Every goroutine is a process with a program counter; one action is one  *)
(* statement (or one run of statements that touch only goroutine-local     *)
(* data) of the source.  A panic ends the call that raised it; the caller  *)
(* may recover it, so the other goroutines go on.                          *)
(*                                                                         *)
(* The application calls Handle and Stop at any time, from any goroutine,  *)
(* and Serve/ServeTLS again once the previous call has ended, each time    *)
(* with a fresh transport.  Clients connect whenever a listener is open.   *)
(* The worker goroutine (cli.serve, in another file of the package) is     *)
(* modelled by its contract: it ends by closing the connection and calling *)
(* wg.Done().                                                              *)
(***************************************************************************)
EXTENDS Integers, FiniteSets, Sequences, TLC

\* Bounds of the model.
MaxCalls == 3           \* calls of Serve, ServeTLS and Stop the application makes
MaxConns == 2           \* connection attempts the clients make

ServeCalls == 1..MaxCalls
Stoppers == 1..MaxCalls
Conns == 1..MaxConns

\* Values of the Handler field: nil or one of two handlers.
HandlerValues == {"nil", "h1", "h2"}
\* Values of ReadTimeout / WriteTimeout (time.Duration): zero or not.
Durations == {0, 50}
\* Values of OnNewConnection: nil, or a hook that accepts / rejects every
\* connection it is given.
HookValues == {"nil", "accept", "reject"}

\* s.listener before any Serve call: the nil interface.
NilListener == [ln |-> 0, tls |-> FALSE]
\* The listener a Serve call binds: the caller's transport ln, as it is
\* (Serve) or wrapped by tls.NewListener (ServeTLS).
Listeners == [ln : ServeCalls, tls : BOOLEAN]

\* A connection no Accept has returned yet.
NoConn == [st |-> "none", by |-> 0, Numero |-> 0, rdl |-> 0, wdl |-> 0]

VARIABLES
    Handler,          \* Server.Handler
    ReadTimeout,      \* Server.ReadTimeout
    WriteTimeout,     \* Server.WriteTimeout
    OnNewConnection,  \* Server.OnNewConnection
    listener,         \* Server.listener
    wg,               \* Server.wg: the WaitGroup's counter
    chDone,           \* Server.chDone: TRUE when the channel is closed
    lstate,           \* transport -> "open" | "closedByStop" | "closedByServe"
    spc,              \* Serve call -> its position
    si,               \* Serve call -> serve's local i
    sdl,              \* Serve call -> transport bound by its deferred Close
    sal,              \* Serve call -> transport its Accept call is made on
    srw,              \* Serve call -> serve's local rw / cli (a connection)
    sres,             \* Serve call -> how the call ended
    saerr,            \* history: Serve call -> the error its Accept returned
    sdone,            \* history: Serve call -> chDone was closed when it began
    nconn,            \* number of connections Accept has returned
    conn,             \* connection -> its record
    tpc,              \* Stop call -> its position
    tres,             \* Stop call -> how the call ended
    npre,             \* history: connections accepted before the first Stop call
    hres              \* outcome of the latest Handle call

vars == <<Handler, ReadTimeout, WriteTimeout, OnNewConnection, listener, wg,
          chDone, lstate, spc, si, sdl, sal, srw, sres, saerr, sdone, nconn,
          conn,
          tpc, tres, npre, hres>>

cfgVars == <<ReadTimeout, WriteTimeout, OnNewConnection>>
handleVars == <<Handler, hres>>
serveVars == <<spc, si, sdl, sal, srw, sres, saerr, sdone>>
stopVars == <<tpc, tres, npre>>

\* The Server but for its configuration fields, as NewServer returns it:
\* an open (not closed) chDone and every other field zero.
InitServer ==
    /\ Handler = "nil"
    /\ listener = NilListener
    /\ wg = 0
    /\ chDone = FALSE
    /\ lstate = [l \in ServeCalls |-> "open"]
    /\ spc = [k \in ServeCalls |-> "idle"]
    /\ si = [k \in ServeCalls |-> 0]
    /\ sdl = [k \in ServeCalls |-> 0]
    /\ sal = [k \in ServeCalls |-> 0]
    /\ srw = [k \in ServeCalls |-> 0]
    /\ sres = [k \in ServeCalls |-> "running"]
    /\ saerr = [k \in ServeCalls |-> "none"]
    /\ sdone = [k \in ServeCalls |-> FALSE]
    /\ nconn = 0
    /\ conn = [c \in Conns |-> NoConn]
    /\ tpc = [t \in Stoppers |-> "idle"]
    /\ tres = [t \in Stoppers |-> "running"]
    /\ npre = 0
    /\ hres = "none"

\* NewServer: the configuration fields are zero too.
Init ==
    /\ ReadTimeout = 0
    /\ WriteTimeout = 0
    /\ OnNewConnection = "nil"
    /\ InitServer

\* A Server whose timeouts and hook the application has set (the fields are
\* exported) before it calls anything.
InitConfigured ==
    /\ ReadTimeout \in Durations
    /\ WriteTimeout \in Durations
    /\ OnNewConnection \in HookValues
    /\ InitServer

----------------------------------------------------------------------------
(* Handle *)

\* A plausible slip: the registration guard is missing.
AlreadyRegistered_Never == FALSE

\* Handle's test `s.Handler != nil`.
AlreadyRegistered == Handler # "nil"

\* Handle(h): panics when a handler is registered, else stores h.  h may be
\* nil: Handle(nil) on a fresh Server stores nil and does not panic.
Handle(h) ==
    /\ IF AlreadyRegistered
         THEN /\ hres' = "panic"
              /\ UNCHANGED Handler
         ELSE /\ Handler' = h
              /\ hres' = "ok"
    /\ UNCHANGED <<cfgVars, listener, wg, chDone, lstate, serveVars, nconn,
                   conn, stopVars>>

----------------------------------------------------------------------------
(* net.Listener *)

\* l.Close() on transport l by `who`: closing a closed listener only returns
\* an error, which every caller here drops.
CloseListener(ls, l, who) ==
    IF l \in DOMAIN ls /\ ls[l] = "open" THEN [ls EXCEPT ![l] = who] ELSE ls

----------------------------------------------------------------------------
(* Serve, ServeTLS and serve *)

\* The calls of Serve, ServeTLS and Stop made so far.
CallsMade ==
    Cardinality({k \in ServeCalls : spc[k] # "idle"})
      + Cardinality({t \in Stoppers : tpc[t] # "idle"})

\* Serve and ServeTLS write s.listener without synchronisation, so the
\* application makes its calls one after the other: call k+1 starts once
\* call k has ended.
MayStart(k) ==
    /\ spc[k] = "idle"
    /\ CallsMade < MaxCalls
    /\ IF k = 1 THEN TRUE ELSE spc[k - 1] = "end"

\* Serve: s.listener = listener, then serve(), which starts with
\* `defer s.listener.Close()`: the receiver s.listener is evaluated there.
Serve(k) ==
    /\ MayStart(k)
    /\ listener' = [ln |-> k, tls |-> FALSE]
    /\ sdl' = [sdl EXCEPT ![k] = k]
    /\ spc' = [spc EXCEPT ![k] = "handler"]
    /\ sdone' = [sdone EXCEPT ![k] = chDone]
    /\ UNCHANGED <<cfgVars, handleVars, wg, chDone, lstate, si, sal, srw,
                   sres, saerr, nconn, conn, stopVars>>

\* ServeTLS: s.listener = tls.NewListener(listener, s.TLSConfig), then serve().
ServeTLS(k) ==
    /\ MayStart(k)
    /\ listener' = [ln |-> k, tls |-> TRUE]
    /\ sdl' = [sdl EXCEPT ![k] = k]
    /\ spc' = [spc EXCEPT ![k] = "handler"]
    /\ sdone' = [sdone EXCEPT ![k] = chDone]
    /\ UNCHANGED <<cfgVars, handleVars, wg, chDone, lstate, si, sal, srw,
                   sres, saerr, nconn, conn, stopVars>>

\* A plausible slip: serve has no deferred Close.
Deferred_Missing(ls, k) == ls

\* The transports after the call `defer s.listener.Close()` registered has
\* run, as it does on every return of serve and when serve panics.
Deferred(ls, k) == CloseListener(ls, sdl[k], "closedByServe")

\* serve returns (or panics) with result r: the deferred Close runs.
Return(k, r) ==
    /\ sres' = [sres EXCEPT ![k] = r]
    /\ spc' = [spc EXCEPT ![k] = "end"]
    /\ lstate' = Deferred(lstate, k)

\* A plausible slip: serve starts without looking at the Handler.
HandlerMissing_Never == FALSE

\* serve's test `s.Handler == nil`.
HandlerMissing == Handler = "nil"

\* `if s.Handler == nil { Logger.Panicln(...) }` and `i := 0`.
serveCheckHandler(k) ==
    /\ spc[k] = "handler"
    /\ IF HandlerMissing
         THEN /\ Return(k, "panic")
              /\ UNCHANGED si
         ELSE /\ spc' = [spc EXCEPT ![k] = "select"]
              /\ si' = [si EXCEPT ![k] = 0]
              /\ UNCHANGED <<sres, lstate>>
    /\ UNCHANGED <<cfgVars, saerr, sdone, handleVars, listener, wg, chDone, sdl,
                   sal, srw, nconn, conn, stopVars>>

\* A plausible slip: the signal is a value sent on the channel, which the
\* receive consumes.
AfterReceive_Consumed == FALSE

\* chDone after `case <-s.chDone` has received from the closed channel.
AfterReceive == chDone

\* A plausible slip: the loop looks at the signal only once it has accepted
\* a connection (the test at the bottom of the loop instead of the top).
ShutdownSeen_AfterAccept(k) == chDone /\ si[k] > 0

\* `case <-s.chDone` is ready: the channel is closed.
ShutdownSeen(k) == chDone

\* The select: with chDone closed go to the shutdown branch, else (default)
\* go on to `s.listener.Accept()`, whose receiver is evaluated here.
serveSelect(k) ==
    /\ spc[k] = "select"
    /\ IF ShutdownSeen(k)
         THEN /\ chDone' = AfterReceive
              /\ spc' = [spc EXCEPT ![k] = "shutdown"]
              /\ UNCHANGED sal
         ELSE /\ sal' = [sal EXCEPT ![k] = listener.ln]
              /\ spc' = [spc EXCEPT ![k] = "accept"]
              /\ UNCHANGED chDone
    /\ UNCHANGED <<cfgVars, handleVars, listener, wg, lstate, si, sdl, srw,
                   sres, saerr, sdone, nconn, conn, stopVars>>

\* The shutdown branch: `s.listener.Close()` and `return nil`.
serveShutdown(k) ==
    /\ spc[k] = "shutdown"
    /\ sres' = [sres EXCEPT ![k] = "nil"]
    /\ spc' = [spc EXCEPT ![k] = "end"]
    /\ lstate' = Deferred(CloseListener(lstate, listener.ln, "closedByServe"), k)
    /\ UNCHANGED <<cfgVars, saerr, sdone, handleVars, listener, wg, chDone, si,
                   sdl, sal, srw, nconn, conn, stopVars>>

\* Accept returns a connection: the listener is open and a client connects.
serveAccept(k) ==
    /\ spc[k] = "accept"
    /\ lstate[sal[k]] = "open"
    /\ nconn < MaxConns
    /\ nconn' = nconn + 1
    /\ conn' = [conn EXCEPT ![nconn + 1] =
                   [st |-> "accepted", by |-> k, Numero |-> 0, rdl |-> 0,
                    wdl |-> 0]]
    /\ srw' = [srw EXCEPT ![k] = nconn + 1]
    /\ spc' = [spc EXCEPT ![k] = "session"]
    /\ UNCHANGED <<cfgVars, handleVars, listener, wg, chDone, lstate, si, sdl,
                   sal, sres, saerr, sdone, stopVars>>

\* The errors Accept can return: on a closed listener the closed-listener
\* error, on an open one some other failure of the transport.
AcceptErrors(l) == IF lstate[l] = "open" THEN {"ErrAccept"} ELSE {"ErrClosed"}

\* A plausible slip: the accept failure is swallowed.
AcceptErrResult_Nil(err) == "nil"

\* `if err != nil { return err }`.
AcceptErrResult(err) == err

\* Accept fails, and serve returns.
serveAcceptErr(k) ==
    /\ spc[k] = "accept"
    /\ \E err \in AcceptErrors(sal[k]) :
          /\ saerr' = [saerr EXCEPT ![k] = err]
          /\ Return(k, AcceptErrResult(err))
    /\ UNCHANGED <<cfgVars, handleVars, listener, wg, chDone, si, sdl, sal,
                   srw, sdone, nconn, conn, stopVars>>

\* A plausible slip: the deadlines are set without testing the timeouts.
SetDeadlines_Always(rw) == [rw EXCEPT !.rdl = @ + 1, !.wdl = @ + 1]

\* rw after the two `if s.XTimeout != 0 { rw.SetXDeadline(...) }`.
SetDeadlines(rw) ==
    [rw EXCEPT !.rdl = IF ReadTimeout # 0 THEN @ + 1 ELSE @,
               !.wdl = IF WriteTimeout # 0 THEN @ + 1 ELSE @]

\* newClient(rwc): builds the client and returns it with a nil error; it
\* does not look at OnNewConnection.
newClient(rwc) == [cli |-> [rwc EXCEPT !.st = "session"], err |-> "nil"]

\* From the deadlines to `cli.Numero = i`: statements on serve's locals and
\* on the connection, which only this goroutine holds.  On an error of
\* newClient `continue`.
serveSession(k) ==
    /\ spc[k] = "session"
    /\ LET r == newClient(SetDeadlines(conn[srw[k]])) IN
         IF r.err # "nil"
           THEN /\ spc' = [spc EXCEPT ![k] = "select"]
                /\ conn' = [conn EXCEPT ![srw[k]] = SetDeadlines(@)]
                /\ srw' = [srw EXCEPT ![k] = 0]
                /\ UNCHANGED si
           ELSE /\ si' = [si EXCEPT ![k] = @ + 1]
                /\ conn' = [conn EXCEPT ![srw[k]] =
                               [r.cli EXCEPT !.Numero = si[k] + 1]]
                /\ spc' = [spc EXCEPT ![k] = "add"]
                /\ UNCHANGED srw
    /\ UNCHANGED <<cfgVars, handleVars, listener, wg, chDone, lstate, sdl, sal,
                   sres, saerr, sdone, nconn, stopVars>>

\* A plausible slip: the loop dispatches the worker without counting it.
AfterAdd_Missing(n) == n

\* The counter after `s.wg.Add(1)`.
AfterAdd(n) == n + 1

\* `s.wg.Add(1)`.
serveAdd(k) ==
    /\ spc[k] = "add"
    /\ wg' = AfterAdd(wg)
    /\ conn' = [conn EXCEPT ![srw[k]] = [@ EXCEPT !.st = "counted"]]
    /\ spc' = [spc EXCEPT ![k] = "go"]
    /\ UNCHANGED <<cfgVars, handleVars, listener, chDone, lstate, si, sdl, sal,
                   srw, sres, saerr, sdone, nconn, stopVars>>

\* A plausible slip: `cli.serve()` without `go`, so that the loop is held
\* until the worker has returned.
GoBlocked_Inline(k) == conn[srw[k]].st # "closed"

\* What holds the loop at `go cli.serve()`: nothing, the statement starts
\* the goroutine and goes on.
GoBlocked(k) == FALSE

\* `go cli.serve()`, and back to the top of the loop.
serveGo(k) ==
    /\ spc[k] = "go"
    /\ ~GoBlocked(k)
    /\ conn' = [conn EXCEPT ![srw[k]] = [@ EXCEPT !.st = "serving"]]
    /\ srw' = [srw EXCEPT ![k] = 0]
    /\ spc' = [spc EXCEPT ![k] = "select"]
    /\ UNCHANGED <<cfgVars, handleVars, listener, wg, chDone, lstate, si, sdl,
                   sal, sres, saerr, sdone, nconn, stopVars>>

----------------------------------------------------------------------------
(* The worker goroutine *)

\* The ways the Handler's run on a session can end.
HandlerEnds == {"return", "failure"}

\* The worker's release: wg.Done() on every way the run ends.
Released(how) == 1

\* cli.serve(): the Handler's run ends, the connection is closed and the
\* worker calls wg.Done().
clientServe(c) ==
    /\ conn[c].st = "serving"
    /\ \E how \in HandlerEnds :
          /\ conn' = [conn EXCEPT ![c] = [@ EXCEPT !.st = "closed"]]
          /\ wg' = wg - Released(how)
    /\ UNCHANGED <<cfgVars, handleVars, listener, chDone, lstate, serveVars,
                   nconn, stopVars>>

----------------------------------------------------------------------------
(* Stop *)

\* The connections for which `s.wg.Add(1)` has been executed and whose
\* worker has not called wg.Done().
Counted == {c \in Conns : conn[c].st \in {"counted", "serving"}}

\* Calls are interchangeable: call t+1 starts after call t has started.
StopMayStart(t) ==
    /\ tpc[t] = "idle"
    /\ CallsMade < MaxCalls
    /\ IF t = 1 THEN TRUE ELSE tpc[t - 1] # "idle"

\* A plausible slip: shutting down also closes the connections accepted
\* from the listener, ending their workers' sessions.
ConnsAfterClose_Dropped(cs) ==
    [c \in DOMAIN cs |->
        IF cs[c].st \in {"accepted", "session", "counted", "serving"}
          THEN [cs[c] EXCEPT !.st = "closed"]
          ELSE cs[c]]

\* The accepted connections after Stop's `s.listener.Close()`: closing a
\* listener closes none of the connections accepted from it.
ConnsAfterClose(cs) == cs

\* A plausible slip: Close on a Server without a listener is taken for a
\* no-op, and Stop goes on.
NoListenerBound_Never == FALSE

\* s.listener is the nil interface: no Serve/ServeTLS call has assigned it.
NoListenerBound == listener = NilListener

\* `_ = s.listener.Close()`: on the nil interface a nil dereference panic.
StopClose(t) ==
    /\ StopMayStart(t)
    /\ npre' = IF t = 1 THEN nconn ELSE npre
    /\ IF NoListenerBound
         THEN /\ tpc' = [tpc EXCEPT ![t] = "end"]
              /\ tres' = [tres EXCEPT ![t] = "panicNil"]
              /\ UNCHANGED <<lstate, conn>>
         ELSE /\ lstate' = CloseListener(lstate, listener.ln, "closedByStop")
              /\ conn' = ConnsAfterClose(conn)
              /\ tpc' = [tpc EXCEPT ![t] = "signal"]
              /\ UNCHANGED tres
    /\ UNCHANGED <<cfgVars, handleVars, listener, wg, chDone, serveVars, nconn>>

\* A plausible slip: the re-close is taken for a no-op.
CloseOfClosed_Never == FALSE

\* close(s.chDone) on a closed channel panics.
CloseOfClosed == chDone

\* `close(s.chDone)`.
StopSignal(t) ==
    /\ tpc[t] = "signal"
    /\ IF CloseOfClosed
         THEN /\ tpc' = [tpc EXCEPT ![t] = "end"]
              /\ tres' = [tres EXCEPT ![t] = "panicClose"]
              /\ UNCHANGED chDone
         ELSE /\ chDone' = TRUE
              /\ tpc' = [tpc EXCEPT ![t] = "wait"]
              /\ UNCHANGED tres
    /\ UNCHANGED <<cfgVars, handleVars, listener, wg, lstate, serveVars, nconn,
                   conn, npre>>

\* A plausible slip: Wait returns without looking at the counter.
WaitReleased_Always == TRUE

\* wg.Wait() returns when the counter is zero.
WaitReleased == wg = 0

\* `s.wg.Wait()`.
StopWait(t) ==
    /\ tpc[t] = "wait"
    /\ WaitReleased
    /\ tpc' = [tpc EXCEPT ![t] = "drained"]
    /\ UNCHANGED <<cfgVars, handleVars, listener, wg, chDone, lstate, serveVars,
                   nconn, conn, tres, npre>>

\* The last log line, and Stop returns.
StopReturn(t) ==
    /\ tpc[t] = "drained"
    /\ tpc' = [tpc EXCEPT ![t] = "end"]
    /\ tres' = [tres EXCEPT ![t] = "returned"]
    /\ UNCHANGED <<cfgVars, handleVars, listener, wg, chDone, lstate, serveVars,
                   nconn, conn, npre>>

----------------------------------------------------------------------------

Next ==
    \/ \E h \in HandlerValues : Handle(h)
    \/ \E k \in ServeCalls : Serve(k)
    \/ \E k \in ServeCalls : ServeTLS(k)
    \/ \E k \in ServeCalls : serveCheckHandler(k)
    \/ \E k \in ServeCalls : serveSelect(k)
    \/ \E k \in ServeCalls : serveShutdown(k)
    \/ \E k \in ServeCalls : serveAccept(k)
    \/ \E k \in ServeCalls : serveAcceptErr(k)
    \/ \E k \in ServeCalls : serveSession(k)
    \/ \E k \in ServeCalls : serveAdd(k)
    \/ \E k \in ServeCalls : serveGo(k)
    \/ \E c \in Conns : clientServe(c)
    \/ \E t \in Stoppers : StopClose(t)
    \/ \E t \in Stoppers : StopSignal(t)
    \/ \E t \in Stoppers : StopWait(t)
    \/ \E t \in Stoppers : StopReturn(t)

Spec == Init /\ [][Next]_vars

SpecConfigured == InitConfigured /\ [][Next]_vars

----------------------------------------------------------------------------
(* One serving session of the Server: the application registers handlers,
   makes one Serve or ServeTLS call and, while that call is running, at most
   one Stop call. *)

\* Stop called while the Serve call is running.
StopWhileServing ==
    /\ spc[1] \notin {"idle", "end"}
    /\ StopClose(1)

\* Accept on a closed listener returns the closed-listener error.
serveAcceptClosed(k) ==
    /\ spc[k] = "accept"
    /\ lstate[sal[k]] # "open"
    /\ serveAcceptErr(k)

NextSession ==
    \/ \E h \in HandlerValues : Handle(h)
    \/ Serve(1)
    \/ ServeTLS(1)
    \/ serveCheckHandler(1)
    \/ serveSelect(1)
    \/ serveShutdown(1)
    \/ serveAccept(1)
    \/ serveAcceptErr(1)
    \/ serveSession(1)
    \/ serveAdd(1)
    \/ serveGo(1)
    \/ \E c \in Conns : clientServe(c)
    \/ StopWhileServing
    \/ StopSignal(1)
    \/ StopWait(1)
    \/ StopReturn(1)

\* The scheduler runs every runnable goroutine: each step of the acceptor
\* loop that needs nothing from outside is taken, an Accept call with a
\* client waiting on an open listener returns, and an Accept call on a
\* closed listener returns.  Nothing is assumed of the workers, whose
\* Handler runs may never end, nor of the application's calls.
LoopFairness ==
    /\ WF_vars(serveCheckHandler(1))
    /\ WF_vars(serveSelect(1))
    /\ WF_vars(serveShutdown(1))
    /\ WF_vars(serveAccept(1))
    /\ WF_vars(serveAcceptClosed(1))
    /\ WF_vars(serveSession(1))
    /\ WF_vars(serveAdd(1))
    /\ WF_vars(serveGo(1))

SpecFairLoop == Init /\ [][NextSession]_vars /\ LoopFairness

\* One serving session of a Server whose timeouts and hook were set first.
SpecSessionConfigured == InitConfigured /\ [][NextSession]_vars

----------------------------------------------------------------------------
(* Claims *)

\* A Stop call that has closed chDone and is on its way to a normal return.
Normal(t) == tpc[t] \in {"wait", "drained"} \/ tres[t] = "returned"

\* A Stop call that has gone as far as it can without the workers: it has
\* ended, or it waits in wg.Wait / has been released from it.
Settled(t) == tpc[t] \in {"wait", "drained", "end"}

\* C1 (as claimed): when Stop has returned, the worker of every connection
\* whose Accept returned before Stop was called has finished.
C1_StopWaitsForAccepted ==
    \A t \in Stoppers :
        tres[t] = "returned" => \A c \in 1..npre : conn[c].st = "closed"

\* C2 (as claimed): over all Serve/ServeTLS calls on the Server, the first
\* session has ordinal 1 and a session accepted later has a strictly larger
\* ordinal than one accepted earlier.
C2_OrdinalsIncreaseAcrossCalls ==
    /\ \A c \in Conns : conn[c].Numero # 0 /\ c = 1 => conn[c].Numero = 1
    /\ \A c1, c2 \in Conns :
          (c1 < c2 /\ conn[c1].Numero # 0 /\ conn[c2].Numero # 0)
              => conn[c1].Numero < conn[c2].Numero

\* C3 (as claimed): with an OnNewConnection hook that reports a failure, no
\* accepted connection becomes a session or gets a worker, the counter and
\* the ordinal counter stay where they were, and the loop goes on.
C3_RejectedNeverServed ==
    OnNewConnection = "reject" =>
        /\ wg = 0
        /\ \A c \in Conns : conn[c].st \in {"none", "accepted"} /\ conn[c].Numero = 0
        /\ \A k \in ServeCalls : si[k] = 0 /\ spc[k] \notin {"add", "go"}

\* C4: a Serve/ServeTLS call on a Server whose Handler is nil panics before
\* its first Accept: while the Handler is nil no call gets past the check,
\* no connection is accepted and the counter is zero; a call that panicked
\* has made no Accept call, accepted nothing and counted no worker.
C4_NoHandlerNoAccept ==
    /\ Handler = "nil" =>
          /\ nconn = 0
          /\ wg = 0
          /\ \A k \in ServeCalls :
                /\ spc[k] \in {"idle", "handler", "end"}
                /\ spc[k] = "end" => sres[k] = "panic"
    /\ \A k \in ServeCalls :
          sres[k] = "panic" =>
              /\ spc[k] = "end"
              /\ sal[k] = 0 /\ si[k] = 0 /\ srw[k] = 0
              /\ \A c \in Conns : conn[c].by # k

\* C4's case: a call made with no Handler registered has panicked.
C4_Witness == \E k \in ServeCalls : sres[k] = "panic" /\ Handler = "nil"

\* C5 (as claimed): once a Handle call has succeeded, the Handler stays the
\* one that first successful call stored, whatever Handle calls follow.
C5_FirstRegistrationKept == [][hres # "none" => Handler' = Handler]_vars

\* C5 (amended): Handle on a Server with a non-nil Handler panics and leaves
\* the Handler as it is, so the Server keeps the first non-nil handler that
\* was registered.
C5_FirstNonNilRegistrationKept ==
    [][/\ Handler # "nil" => Handler' = Handler
       /\ \A h \in HandlerValues :
             (Handle(h) /\ Handler # "nil") => hres' = "panic"]_vars

\* C5's case: a Handle call on a Server that has a Handler has panicked.
C5_Witness == Handler # "nil" /\ hres = "panic"

\* C6 (as claimed): once Stop has closed the transport and closed chDone, no
\* Accept call of the acceptor loop returns a connection.
C6_NoAcceptAfterSignal == [][chDone => nconn' = nconn]_vars

\* C7 (as claimed): when Accept fails on a transport that Stop closed, the
\* Serve/ServeTLS call returns nil.
C7_ClosedByStopReturnsNil ==
    \A k \in ServeCalls :
        (saerr[k] = "ErrClosed" /\ lstate[sal[k]] = "closedByStop")
            => sres[k] = "nil"

\* C8: an Accept failure ends the call at once, with that error as its
\* result; a call returns nil only after a Stop call has closed chDone.
C8_AcceptErrorEndsServe ==
    \A k \in ServeCalls :
        /\ saerr[k] # "none" => spc[k] = "end" /\ sres[k] = saerr[k]
        /\ sres[k] = "nil" => \E t \in Stoppers : Normal(t)

\* C8's case: Accept has failed while no Stop call had been made.
C8_Witness ==
    /\ \E k \in ServeCalls : saerr[k] = "ErrAccept"
    /\ \A t \in Stoppers : tpc[t] = "idle"

\* C9 (as claimed): only one Stop call sets the signal and completes
\* normally, and every other Stop call made on the Server ends in the panic
\* of re-closing the signal.
C9_SecondStopPanicsOnReclose ==
    \A t1, t2 \in Stoppers :
        (t1 # t2 /\ Normal(t1) /\ Settled(t2)) => tres[t2] = "panicClose"

\* C9 (amended): of the Stop calls that got past the transport close and
\* executed close(chDone), exactly one set the signal and every other one
\* panicked on re-closing it; a call that found no listener bound panicked
\* before, without setting the signal; chDone is closed exactly when one
\* call has set it.
C9_OneStopSetsSignal ==
    LET P == {t \in Stoppers : tpc[t] \in {"wait", "drained"}
                                  \/ (tpc[t] = "end" /\ tres[t] # "panicNil")} IN
      /\ P # {} => Cardinality({t \in P : Normal(t)}) = 1
      /\ \A t \in P : Normal(t) \/ tres[t] = "panicClose"
      /\ \A t \in Stoppers : Normal(t) => t \in P
      /\ chDone <=> \E t \in Stoppers : Normal(t)

\* C9's case: a Stop call has returned and a second one has panicked on the
\* closed channel.
C9_Witness ==
    \E t1, t2 \in Stoppers : tres[t1] = "returned" /\ tres[t2] = "panicClose"

\* C10: chDone, once closed, stays closed; only Stop's close(s.chDone)
\* closes it; and the select of the acceptor loop is never blocked and,
\* with chDone closed, takes the shutdown branch.
C10_SignalIrreversible ==
    [][/\ chDone => chDone'
       /\ (~chDone /\ chDone') => \E t \in Stoppers : StopSignal(t)
       /\ \A k \in ServeCalls :
             /\ spc[k] = "select" => ENABLED serveSelect(k)
             /\ (chDone /\ serveSelect(k)) => spc'[k] = "shutdown"]_vars

\* C10's case: the acceptor loop has observed the closed chDone and returned.
C10_Witness == chDone /\ \E k \in ServeCalls : sres[k] = "nil"

\* C11: a Stop call's wg.Wait() returns only in a state where every worker
\* whose `s.wg.Add(1)` has been executed so far has finished; among them is
\* every worker counted before the Stop call began, so Wait does not return
\* while one of those is unfinished.
C11_WaitHoldsForCounted ==
    [][\A t \in Stoppers : StopWait(t) => Counted = {}]_vars

\* C11's case: the first Stop call began after two connections had been
\* accepted, so with the first of them counted and dispatched, and it has
\* returned.
C11_Witness == tres[1] = "returned" /\ npre >= 2

\* C12 (as claimed): once Stop has closed the transport and closed chDone,
\* the counter does not increase before it has reached zero: every step
\* taken with chDone closed and the counter above zero leaves the counter
\* as it is or decrements it.
C12_CounterNeverIncreasesAfterSignal ==
    [][(chDone /\ wg > 0) => wg' <= wg]_vars

\* C13: the counter is never negative and is the number of connections for
\* which `s.wg.Add(1)` was executed and whose worker has not returned; a
\* worker's return, however its Handler run ended, takes exactly one off
\* it, so with no such worker left the counter is zero.
C13_CounterIsLiveWorkers ==
    /\ wg >= 0
    /\ wg = Cardinality(Counted)
    /\ Counted = {} => wg = 0

\* C13's case: one worker has returned while another is still running.
C13_Witness ==
    \E c1, c2 \in Conns : conn[c1].st = "closed" /\ conn[c2].st = "serving"

\* The Serve call is in Accept on a listener that is open.
InAcceptOnOpen(k) ==
    IF spc[k] = "accept" THEN lstate[sal[k]] = "open" ELSE FALSE

\* The Accept call of the Serve call has failed, or its listener is closed.
AcceptOver(k) ==
    IF sal[k] = 0 THEN FALSE ELSE saerr[k] # "none" \/ lstate[sal[k]] # "open"

\* C14: no step of the acceptor loop waits on a worker: at each position of
\* the loop its next step is enabled whatever the workers' states are (the
\* Accept call given a client waiting on the open listener), and, with the
\* loop scheduled fairly and no worker ever required to finish, a client
\* waiting while the call is in Accept is accepted and dispatched unless
\* Accept fails or the listener is closed.
C14_LoopNeverWaitsOnWorker ==
    /\ [](\A k \in ServeCalls :
            /\ spc[k] = "select" => ENABLED serveSelect(k)
            /\ spc[k] = "session" => ENABLED serveSession(k)
            /\ spc[k] = "add" => ENABLED serveAdd(k)
            /\ spc[k] = "go" => ENABLED serveGo(k)
            /\ (InAcceptOnOpen(k) /\ nconn < MaxConns) => ENABLED serveAccept(k))
    /\ \A k \in ServeCalls, c \in Conns :
          (InAcceptOnOpen(k) /\ nconn + 1 = c)
              ~> (conn[c].st \in {"serving", "closed"} \/ AcceptOver(k))

\* C14's case: a later connection has been dispatched while the worker of
\* an earlier one is still running.
C14_Witness ==
    \E c1, c2 \in Conns :
        c1 < c2 /\ conn[c1].st = "serving" /\ conn[c2].st = "serving"

C16_CounterZeroAtStopReturn ==
    [][\A t \in Stoppers : StopReturn(t) => wg' = 0]_vars

\* The number of SetReadDeadline / SetWriteDeadline calls a connection gets
\* under timeout d: one if d is non-zero, none if it is zero.
DeadlineCalls(d) == IF d # 0 THEN 1 ELSE 0

\* C17: a connection that Accept returned and the loop has not yet taken up
\* has no deadline; from the construction of its session on it has had
\* SetReadDeadline called once if ReadTimeout is non-zero and never
\* otherwise, and the same for SetWriteDeadline and WriteTimeout; and only
\* the loop's step on the connection it holds changes these.
C17_DeadlinesSetOnceIffConfigured ==
    [][/\ \A c \in Conns :
             /\ conn'[c].st \in {"none", "accepted"}
                   => conn'[c].rdl = 0 /\ conn'[c].wdl = 0
             /\ conn'[c].st \in {"session", "counted", "serving", "closed"}
                   => /\ conn'[c].rdl = DeadlineCalls(ReadTimeout)
                      /\ conn'[c].wdl = DeadlineCalls(WriteTimeout)
             /\ (conn'[c].rdl # conn[c].rdl \/ conn'[c].wdl # conn[c].wdl)
                   => \E k \in ServeCalls : srw[k] = c /\ serveSession(k)
       /\ ReadTimeout' = ReadTimeout /\ WriteTimeout' = WriteTimeout]_vars

\* C17's case: with a read timeout and no write timeout, a connection has
\* been dispatched and its worker has returned.
C17_Witness ==
    /\ ReadTimeout # 0 /\ WriteTimeout = 0
    /\ \E c \in Conns :
          conn[c].st = "closed" /\ conn[c].rdl = 1 /\ conn[c].wdl = 0

\* C18: a Serve/ServeTLS call that has ended, by the shutdown branch, by an
\* Accept error or by the missing-Handler panic, has left the transport it
\* was given (call k is given transport k) closed.
C18_EndedServeClosedListener ==
    \A k \in ServeCalls : spc[k] = "end" => lstate[k] # "open"

\* C18's case: one call has ended by the missing-Handler panic and another
\* by an Accept error on a listener nobody had closed.
C18_Witness ==
    /\ \E k \in ServeCalls : sres[k] = "panic" /\ lstate[k] = "closedByServe"
    /\ \E k \in ServeCalls :
          saerr[k] = "ErrAccept" /\ lstate[k] = "closedByServe"

\* What a Serve call made with chDone already closed never does: make an
\* Accept call, hold or count a connection, start a worker.
ServesNothing(k) ==
    /\ spc[k] \notin {"accept", "session", "add", "go"}
    /\ sal[k] = 0 /\ si[k] = 0 /\ srw[k] = 0 /\ saerr[k] = "none"
    /\ \A c \in Conns : conn[c].by # k

\* C19 (as claimed): a Serve/ServeTLS call made on a Server whose chDone is
\* already closed accepts nothing and starts no worker, and it ends by
\* returning nil with the listener it was given closed.
C19_StoppedServerReturnsNil ==
    \A k \in ServeCalls :
        sdone[k] =>
            /\ ServesNothing(k)
            /\ spc[k] = "end" => sres[k] = "nil" /\ lstate[k] # "open"

\* C19 (amended): such a call accepts nothing and starts no worker, and it
\* ends with the listener it was given closed: by returning nil from the
\* first iteration if a Handler is registered, by the missing-Handler panic
\* if none is.
C19_StoppedServerServesNothing ==
    [][\A k \in ServeCalls :
          /\ sdone'[k] =>
                /\ ServesNothing(k)'
                /\ spc'[k] = "end" =>
                      /\ sres'[k] \in {"nil", "panic"}
                      /\ lstate'[k] # "open"
          /\ (sdone[k] /\ spc[k] # "end" /\ spc'[k] = "end") =>
                sres'[k] = IF Handler = "nil" THEN "panic" ELSE "nil"]_vars

\* C19's case: a call made after Stop had closed chDone has returned nil.
C19_Witness ==
    \E k \in ServeCalls : sdone[k] /\ sres[k] = "nil" /\ lstate[k] = "closedByServe"

\* Every Stop call made so far was made before a listener was bound.
OnlyEarlyStops == \A t \in Stoppers : tpc[t] = "idle" \/ tres[t] = "panicNil"

\* C20: a Stop call that runs `s.listener.Close()` before any Serve/ServeTLS
\* call has assigned s.listener panics there and is over: it closes no
\* transport and does not close chDone, then or later.  While every Stop
\* call made so far was such a call, chDone is open, and a Serve call goes
\* from the select to Accept and accepts the client that connects.
C20_EarlyStopChangesNothing ==
    [][/\ \A t \in Stoppers :
             /\ (StopClose(t) /\ listener = NilListener)
                   => /\ tres'[t] = "panicNil" /\ tpc'[t] = "end"
                      /\ chDone' = chDone /\ lstate' = lstate
             /\ tres[t] = "panicNil" => tpc'[t] = "end" /\ tres'[t] = "panicNil"
       /\ OnlyEarlyStops =>
             /\ ~chDone
             /\ \A l \in ServeCalls : lstate[l] # "closedByStop"
             /\ \A k \in ServeCalls :
                   /\ serveSelect(k) => spc'[k] = "accept"
                   /\ (spc[k] = "accept" /\ nconn < MaxConns)
                         => ENABLED serveAccept(k)]_vars

\* C20's case: the first Stop call was made before any listener was bound
\* and panicked; a Serve call made afterwards has accepted a connection and
\* its worker is running.
C20_Witness ==
    /\ tres[1] = "panicNil"
    /\ OnlyEarlyStops
    /\ \E c \in Conns : conn[c].st = "serving"

====
